---- MODULE Spec2Model ----
(***************************************************************************)
(* Model of the brick addressing, paging and miss-reporting core of the    *)
(* BorgVR volume renderer: GPUHashtable.h (simpleHash, reportMissingBrick) *)
(* and VolumeAtlas.h (getBrickIndex, computeBrickCoords, getBrick).        *)
(*                                                                         *)
(* Threads are GPU invocations.  The hash buffer is the only shared        *)
(* mutable state; every atomic_compare_exchange_weak_explicit is one step. *)
(* The code between two compare-and-swaps only reads thread-local data and *)
(* the read-only level and residency tables, so it is folded into the      *)
(* neighbouring step.                                                      *)
(***************************************************************************)
EXTENDS Integers, Sequences, FiniteSets

(***************************************************************************)
(* Bounds of the model.  ShaderTypes.h:24-37 gives dummy values that the   *)
(* host overrides when the shader is loaded; the model uses small ones.    *)
(* MaxOobLevels is the number of levels past the level table that a        *)
(* fallback loop running off the table is followed for.                    *)
(* MantBits and FracBits give the floating-point format of the brick      *)
(* bounds computation, MaxLayoutQuarters the largest layout it is given.   *)
(***************************************************************************)
NumThreads ==
  3
MinBrickIndex ==
  2
MaxBrickIndex ==
  5
HASHTABLE_SIZE ==
  5
MAX_PROBING_ATTEMPTS ==
  2
LEVEL_COUNT ==
  3
PosBits ==
  1
MaxOobLevels ==
  1
MantBits ==
  5
FracBits ==
  6
MaxLayoutQuarters ==
  16
MaxPoolDim ==
  3

(***************************************************************************)
(* Program constants.                                                      *)
(***************************************************************************)
REQUEST_LOWRES_LOD ==
  1
BI_MISSING ==
  0
BI_CHILD_EMPTY ==
  1
BI_EMPTY ==
  2
BI_FLAG_COUNT ==
  3

\* The empty marker 0xFFFFFFFFu of a hash slot.  Brick indices of the model
\* are small naturals, so the all-ones word is written -1 (same bit pattern
\* in two's complement) and never equals a brick index.
EMPTY_SLOT == -1

Threads == 1..NumThreads
\* Spec follows one invocation of getBrick through a pass; the concurrency
\* on the hash buffer is the subject of SpecInsert.
Resolvers == {1}
Slots == 0..(HASHTABLE_SIZE - 1)
\* the brick indices the concurrent inserters of SpecInsert report
BrickIndices == MinBrickIndex..MaxBrickIndex

(***************************************************************************)
(* simpleHash: value * 2654435761u in 32-bit unsigned arithmetic.  The     *)
(* multiplier is 0x9E3779B1 = 40503 * 2^16 + 31153.  The product is kept   *)
(* as two 16-bit limbs <<hi, lo>> so that no intermediate value leaves the *)
(* range of the checker's integers; bits above 2^32 are dropped.           *)
(***************************************************************************)
simpleHash(value) ==
  LET lowProduct == value * 31153
      lo == lowProduct % 65536
      carry == lowProduct \div 65536
      hi == (value * 40503 + carry) % 65536
  IN <<hi, lo>>

\* word % m for a 32-bit word held as limbs <<hi, lo>>
Mod32(word, m) ==
  ((word[1] * (65536 % m)) + word[2]) % m

\* GPUHashtable.h:32
HashIndex(brickIndex) ==
  Mod32(simpleHash(brickIndex), HASHTABLE_SIZE)

\* variant of the loop condition that probes one slot too many
LoopContinues_OffByOne(i) ==
  i <= MAX_PROBING_ATTEMPTS

\* GPUHashtable.h:35, the loop condition
LoopContinues(i) ==
  i < MAX_PROBING_ATTEMPTS

\* variant of the probe sequence with a stride of two slots
ProbeSlot_Stride(hashIndex, i) ==
  (hashIndex + 2 * i) % HASHTABLE_SIZE

\* GPUHashtable.h:36
ProbeSlot(hashIndex, i) ==
  (hashIndex + i) % HASHTABLE_SIZE

\* variant that retries the slot when the failed compare-and-swap found it
\* empty
NextProbe_RetrySpurious(i, expected) ==
  IF expected = EMPTY_SLOT THEN i ELSE i + 1

\* GPUHashtable.h:35 and 47-51: the probe offset after a failed
\* compare-and-swap that loaded `expected` from the slot.
NextProbe(i, expected) ==
  i + 1

(***************************************************************************)
(* LevelData (ShaderTypes.h:161-166).  The host fills the level table; the *)
(* model uses a hierarchy whose finest level has the layout FineLayout     *)
(* (one rational <<numerator, denominator>> per axis) and whose level L    *)
(* has that layout halved L times.  A level's brick count along an axis is *)
(* the layout rounded up, and prevBricks is the number of bricks of all    *)
(* coarser levels (ShaderTypes.h:158): the coarsest level comes first in   *)
(* the flat brick index space.                                             *)
(***************************************************************************)
RECURSIVE Pow2(_)
Pow2(n) ==
  IF n = 0 THEN 1 ELSE 2 * Pow2(n - 1)

FineLayout == << <<2, 1>>, <<1, 2>>, <<1, 2>> >>

Levels == 0..(LEVEL_COUNT - 1)

fractionalBrickLayout(L) ==
  [a \in 1..3 |-> <<FineLayout[a][1], FineLayout[a][2] * Pow2(L)>>]

BricksAlong(L, a) ==
  LET f == fractionalBrickLayout(L)[a]
  IN (f[1] + f[2] - 1) \div f[2]

BrickCount(L) ==
  BricksAlong(L, 1) * BricksAlong(L, 2) * BricksAlong(L, 3)

\* the bricks of level L and of all coarser levels
RECURSIVE BricksFrom(_)
BricksFrom(L) ==
  IF L >= LEVEL_COUNT THEN 0 ELSE BrickCount(L) + BricksFrom(L + 1)

PrevBricks(L) ==
  BricksFrom(L + 1)

NumBricks == BricksFrom(0)

levelArray ==
  [L \in Levels |->
    [bricksX |-> BricksAlong(L, 1),
     bricksXTimesBricksY |-> BricksAlong(L, 1) * BricksAlong(L, 2),
     prevBricks |-> PrevBricks(L),
     fractionalBrickLayout |-> fractionalBrickLayout(L)]]

(***************************************************************************)
(* Positions.  A normalized coordinate is n / PosDen, held as the integer  *)
(* n; PosDen is a power of two and the layouts are dyadic, so every        *)
(* product below is exact in single precision as well.                     *)
(***************************************************************************)
PosDen == Pow2(PosBits)

\* clamp(x, 0, 1), VolumeAtlas.h:107
Clamp01(n) ==
  IF n < 0 THEN 0 ELSE IF n > PosDen THEN PosDen ELSE n

\* VolumeAtlas.h:8-14
getBrickIndex(brickCoords) ==
  LET level == levelArray[brickCoords[4]]
  IN level.prevBricks
       + brickCoords[1]
       + brickCoords[2] * level.bricksX
       + brickCoords[3] * level.bricksXTimesBricksY

\* VolumeAtlas.h:16-20: uint3(normEntryCoords * fractionalBrickLayout)
\* truncates each non-negative product.
computeBrickCoords(normEntryCoords, LOD) ==
  LET level == levelArray[LOD]
      cell(a) == (normEntryCoords[a] * level.fractionalBrickLayout[a][1])
                   \div (PosDen * level.fractionalBrickLayout[a][2])
  IN <<cell(1), cell(2), cell(3), LOD>>

ResidencyValues == 0..BI_FLAG_COUNT
\* the indices an out-of-range read is followed with
GarbageIndices == {0, MaxBrickIndex}
AllIndices == 0..(IF MaxBrickIndex > NumBricks - 1 THEN MaxBrickIndex ELSE NumBricks - 1)

VARIABLES
  hashBuffer,   \* the MissReportSet: slot -> brick index or EMPTY_SLOT
  brickMeta,    \* the residency table: brick index -> residency value
  pc,           \* per thread: "idle", "cas", "fallback", "finish", "ret"
  rmb,          \* per thread: the frame of reportMissingBrick
  gb,           \* per thread: the frame of getBrick
  nCalls,       \* history: per brick index, reportMissingBrick calls started
  stored,       \* history: brick indices some compare-and-swap has stored
  geo           \* the frame of the geometry at the end of getBrick: brick
                \* bounds and pool coordinates

vars == <<hashBuffer, brickMeta, pc, rmb, gb, nCalls, stored, geo>>

NoRmb ==
  [brickIndex |-> 0, hashIndex |-> 0, i |-> 0, attempts |-> 0,
   outcome |-> "none", retTo |-> "idle"]

NoPos == <<0, 0, 0>>

NoGb ==
  [normEntryCoords |-> NoPos, iLOD |-> 0, dontRequest |-> FALSE,
   LOD |-> 0, brickCoords |-> <<0, 0, 0, 0>>, brickIndex |-> 0, brickInfo |-> 0,
   requestedInfo |-> 0,
   infoBrickIndex |-> 0, substitute |-> FALSE, empty |-> FALSE,
   lastBrickIndex |-> 0, fallbackLOD |-> 0, fallbackInfo |-> 0,
   poolInfo |-> -1, maxLevelRead |-> 0, reported |-> <<>>, active |-> FALSE]

NoGeo ==
  [normEntryCoords |-> NoPos, LOD |-> 0, fractionalBrickLayout |-> NoPos,
   brickCoords |-> <<0, 0, 0, 0>>, corners |-> <<NoPos, NoPos>>,
   direction |-> NoPos, tExit |-> 0, normExitCoords |-> NoPos,
   brickInfo |-> 0, poolCapacity |-> <<1, 1, 1>>, vBrickCoords |-> NoPos,
   done |-> FALSE]

(***************************************************************************)
(* reportMissingBrick, GPUHashtable.h:30-53.                               *)
(***************************************************************************)
\* Entry of reportMissingBrick(brickIndex, hashBuffer): line 32 and the first
\* evaluation of the loop condition.  retTo is where the caller continues.
EnterReport(brickIndex, retTo) ==
  [brickIndex |-> brickIndex, hashIndex |-> HashIndex(brickIndex), i |-> 0,
   attempts |-> 0,
   outcome |-> IF LoopContinues(0) THEN "running" ELSE "dropped",
   retTo |-> retTo]

PcOfReport(frame) ==
  IF frame.outcome = "running" THEN "cas" ELSE frame.retTo

CurrentSlot(t) ==
  ProbeSlot(rmb[t].hashIndex, rmb[t].i)

\* variant of the comparison that lets the store through whatever the slot
\* holds
CasMatches_Always(word) ==
  word = word

\* GPUHashtable.h:38-44: the compare-and-swap compares the slot's word with
\* expected = 0xFFFFFFFF.
CasMatches(word) ==
  word = EMPTY_SLOT

\* Lines 40-46: the compare-and-swap finds the empty marker and stores
\* brickIndex; break.
CasSucceed(t) ==
  /\ pc[t] = "cas"
  /\ CasMatches(hashBuffer[CurrentSlot(t)])
  /\ hashBuffer' = [hashBuffer EXCEPT ![CurrentSlot(t)] = rmb[t].brickIndex]
  /\ rmb' = [rmb EXCEPT ![t].attempts = @ + 1, ![t].outcome = "stored"]
  /\ pc' = [pc EXCEPT ![t] = rmb[t].retTo]
  /\ stored' = stored \cup {rmb[t].brickIndex}
  /\ UNCHANGED <<geo, brickMeta, gb, nCalls>>

\* Lines 47-52 after a failed compare-and-swap that left `expected`: break
\* when expected == brickIndex, else the next probe or the end of the loop.
AfterFailure(t, expected) ==
  LET next == NextProbe(rmb[t].i, expected)
      outcome == IF expected = rmb[t].brickIndex THEN "present"
                 ELSE IF LoopContinues(next) THEN "running"
                 ELSE "dropped"
  IN /\ rmb' = [rmb EXCEPT ![t].attempts = @ + 1,
                           ![t].i = IF outcome = "present" THEN @ ELSE next,
                           ![t].outcome = outcome]
     /\ pc' = [pc EXCEPT ![t] = IF outcome = "running" THEN "cas" ELSE rmb[t].retTo]
     /\ UNCHANGED <<geo, hashBuffer, brickMeta, gb, nCalls, stored>>

\* The compare-and-swap fails because the slot holds another word.
CasFail(t) ==
  /\ pc[t] = "cas"
  /\ ~CasMatches(hashBuffer[CurrentSlot(t)])
  /\ AfterFailure(t, hashBuffer[CurrentSlot(t)])

\* atomic_compare_exchange_weak may fail although the slot holds the
\* expected empty marker; `expected` is then reloaded with that marker.
CasFailSpurious(t) ==
  /\ pc[t] = "cas"
  /\ CasMatches(hashBuffer[CurrentSlot(t)])
  /\ AfterFailure(t, EMPTY_SLOT)

CasStep(t) ==
  \/ CasSucceed(t)
  \/ CasFail(t)
  \/ CasFailSpurious(t)

\* A thread calls reportMissingBrick(brickIndex, hashBuffer) directly.
ReportCall(t, brickIndex) ==
  /\ pc[t] = "idle"
  /\ LET frame == EnterReport(brickIndex, "ret")
     IN /\ rmb' = [rmb EXCEPT ![t] = frame]
        /\ pc' = [pc EXCEPT ![t] = PcOfReport(frame)]
  /\ nCalls' = [nCalls EXCEPT ![brickIndex] = @ + 1]
  /\ UNCHANGED <<geo, hashBuffer, brickMeta, gb, stored>>

\* The host fills the hash buffer with the empty marker before a pass.
InitCommon ==
  /\ hashBuffer = [s \in Slots |-> EMPTY_SLOT]
  /\ pc = [t \in Threads |-> "idle"]
  /\ rmb = [t \in Threads |-> NoRmb]
  /\ gb = [t \in Threads |-> NoGb]
  /\ nCalls = [b \in AllIndices |-> 0]
  /\ stored = {}

\* Concurrent inserters: every thread calls reportMissingBrick.
InitInsert ==
  /\ InitCommon
  /\ brickMeta = [b \in 0..(NumBricks - 1) |-> BI_MISSING]
  /\ geo = NoGeo

NextInsert ==
  \E t \in Threads :
    \/ \E b \in BrickIndices : ReportCall(t, b)
    \/ CasSucceed(t)
    \/ CasFail(t)
    \/ CasFailSpurious(t)

SpecInsert == InitInsert /\ [][NextInsert]_vars

(***************************************************************************)
(* getBrick, VolumeAtlas.h:96-168.                                         *)
(***************************************************************************)
\* The entry positions a resolver is called with: the x coordinate ranges
\* over the grid and one step beyond each end of [0,1], on the edge y = 0,
\* z = 1 of the cube.
EntryCoords ==
  {<<x, 0, PosDen>> : x \in (-1)..(PosDen + 1)}

\* the residency value getBrick reads for position p at level L
StateAt(p, L) ==
  brickMeta[getBrickIndex(computeBrickCoords(p, L))]

\* brickMeta[brickIndex], VolumeAtlas.h:111 and 128.  The position 1.0 on an
\* axis whose layout is a whole number yields the cell one past the last
\* brick of the level, and at the finest level an index past the end of the
\* table: that read is outside the buffer and returns any value.
ReadMeta(brickIndex) ==
  IF brickIndex \in DOMAIN brickMeta
  THEN {brickMeta[brickIndex]}
  ELSE ResidencyValues

\* variant that steps to the finer level
NextLOD_Finer(lod) ==
  lod - 1

\* variant that climbs two levels at a time
NextLOD_Skip(lod) ==
  lod + 2

\* VolumeAtlas.h:125
NextLOD(lod) ==
  lod + 1

\* variant of the do-while condition that climbs until a resident brick
FallbackContinues_UntilResident(brickInfo) ==
  brickInfo < BI_FLAG_COUNT

\* VolumeAtlas.h:129, the condition of the do-while loop
FallbackContinues(brickInfo) ==
  brickInfo = BI_MISSING

\* variant of the emptiness test that takes pool slot 0 for a flag
IsEmptyInfo_OffByOne(brickInfo) ==
  brickInfo <= BI_FLAG_COUNT

\* variant of the emptiness test that takes BI_EMPTY for a pool slot
IsEmptyInfo_ChildOnly(brickInfo) ==
  brickInfo <= BI_CHILD_EMPTY

\* VolumeAtlas.h:140
IsEmptyInfo(brickInfo) ==
  brickInfo <= BI_EMPTY

\* variant that also adopts a coarser brick that is only BI_EMPTY
AdoptsLowRes_AnyEmpty(lowResBrickInfo) ==
  lowResBrickInfo \in {BI_CHILD_EMPTY, BI_EMPTY}

\* VolumeAtlas.h:148
AdoptsLowRes(lowResBrickInfo) ==
  lowResBrickInfo = BI_CHILD_EMPTY

\* variant of the substitute flag that is set for every non-resident brick
IsSubstitute_NotResident(brickInfo) ==
  brickInfo < BI_FLAG_COUNT

\* VolumeAtlas.h:114
IsSubstitute(brickInfo) ==
  brickInfo = BI_MISSING

\* variant of the cache-miss test that ignores dontRequest
RequestsMiss_IgnoreFlag(dontRequest, brickInfo) ==
  brickInfo = BI_MISSING

\* VolumeAtlas.h:117
RequestsMiss(dontRequest, brickInfo) ==
  ~dontRequest /\ brickInfo = BI_MISSING

\* poolInfo of a frame whose pool transform was not computed
NoPool == -1

\* VolumeAtlas.h:51, brickInfo-BI_FLAG_COUNT as an integer: the unsigned
\* subtraction of the code wraps around exactly when this is negative.
BrickID(brickInfo) ==
  brickInfo - BI_FLAG_COUNT

\* VolumeAtlas.h:144-155: the loop over the coarser levels of an empty brick,
\* from lowResLOD on.  f is the frame of getBrick.
RECURSIVE AscendEmpty(_, _)
AscendEmpty(f, lowResLOD) ==
  IF lowResLOD < LEVEL_COUNT
  THEN LET lowResBrickCoords == computeBrickCoords(f.normEntryCoords, lowResLOD)
           lowResBrickIndex == getBrickIndex(lowResBrickCoords)
           lowResBrickInfo == brickMeta[lowResBrickIndex]
           read == [f EXCEPT !.maxLevelRead =
                      IF lowResLOD > @ THEN lowResLOD ELSE @]
       IN IF AdoptsLowRes(lowResBrickInfo)
          THEN AscendEmpty([read EXCEPT !.brickCoords = lowResBrickCoords,
                                        !.brickInfo = lowResBrickInfo,
                                        !.LOD = lowResLOD],
                           lowResLOD + 1)
          ELSE read
  ELSE f

\* VolumeAtlas.h:138-167: from the emptiness test to the return.
FinishGetBrick(f) ==
  LET empty == IsEmptyInfo(f.brickInfo)
      at140 == [f EXCEPT !.empty = empty,
                         !.fallbackLOD = f.LOD,
                         !.fallbackInfo = f.brickInfo]
      final == IF empty THEN AscendEmpty(at140, at140.LOD + 1) ELSE at140
  IN [final EXCEPT !.poolInfo = IF empty THEN NoPool ELSE final.brickInfo]

\* VolumeAtlas.h:104-118: entry of getBrick up to the cache-miss test; a
\* miss that may be requested calls reportMissingBrick, anything else runs
\* on to the return.
GetBrickCall(t, p, iLOD, dontRequest) ==
  /\ pc[t] = "idle"
  /\ \E brickInfo \in ReadMeta(getBrickIndex(computeBrickCoords(
                          [a \in 1..3 |-> Clamp01(p[a])], iLOD))) :
     LET normEntryCoords == [a \in 1..3 |-> Clamp01(p[a])]
         brickCoords == computeBrickCoords(normEntryCoords, iLOD)
         brickIndex == getBrickIndex(brickCoords)
         miss == RequestsMiss(dontRequest, brickInfo)
         f == [NoGb EXCEPT !.normEntryCoords = normEntryCoords,
                           !.iLOD = iLOD,
                           !.dontRequest = dontRequest,
                           !.LOD = iLOD,
                           !.brickCoords = brickCoords,
                           !.brickIndex = brickIndex,
                           !.brickInfo = brickInfo,
                           !.requestedInfo = brickInfo,
                           !.infoBrickIndex = brickIndex,
                           !.substitute = IsSubstitute(brickInfo),
                           !.lastBrickIndex = brickIndex,
                           !.maxLevelRead = iLOD,
                           !.active = TRUE]
         frame == EnterReport(brickIndex, "fallback")
     IN IF miss
        THEN /\ gb' = [gb EXCEPT ![t] = [f EXCEPT !.reported = <<brickIndex>>]]
             /\ rmb' = [rmb EXCEPT ![t] = frame]
             /\ pc' = [pc EXCEPT ![t] = PcOfReport(frame)]
             /\ nCalls' = [nCalls EXCEPT ![brickIndex] = @ + 1]
        ELSE /\ gb' = [gb EXCEPT ![t] = FinishGetBrick(f)]
             /\ rmb' = [rmb EXCEPT ![t] = NoRmb]
             /\ pc' = [pc EXCEPT ![t] = "ret"]
             /\ UNCHANGED nCalls
  /\ UNCHANGED <<geo, hashBuffer, brickMeta, stored>>

\* VolumeAtlas.h:129-136 once an iteration of the do-while loop has set the
\* frame to f: loop again, or leave the loop, report the brick of the level
\* before (REQUEST_LOWRES_LOD) and go on to the emptiness test.
AfterFallbackRead(t, f) ==
  IF FallbackContinues(f.brickInfo)
  THEN /\ gb' = [gb EXCEPT ![t] = f]
       /\ UNCHANGED <<pc, rmb, nCalls>>
  ELSE IF REQUEST_LOWRES_LOD = 1 /\ f.iLOD < f.LOD
  THEN LET frame == EnterReport(f.lastBrickIndex, "finish")
       IN /\ gb' = [gb EXCEPT ![t] =
                      [f EXCEPT !.reported = Append(@, f.lastBrickIndex)]]
          /\ rmb' = [rmb EXCEPT ![t] = frame]
          /\ pc' = [pc EXCEPT ![t] = PcOfReport(frame)]
          /\ nCalls' = [nCalls EXCEPT ![f.lastBrickIndex] = @ + 1]
  ELSE /\ gb' = [gb EXCEPT ![t] = FinishGetBrick(f)]
       /\ pc' = [pc EXCEPT ![t] = "ret"]
       /\ UNCHANGED <<rmb, nCalls>>

\* VolumeAtlas.h:124-128: an iteration of the do-while loop that reads a
\* level of the hierarchy.
FallbackStep(t) ==
  /\ pc[t] = "fallback"
  /\ NextLOD(gb[t].LOD) \in Levels
  /\ LET LOD == NextLOD(gb[t].LOD)
         brickCoords == computeBrickCoords(gb[t].normEntryCoords, LOD)
         brickIndex == getBrickIndex(brickCoords)
     IN \E brickInfo \in ReadMeta(brickIndex) :
          AfterFallbackRead(t, [gb[t] EXCEPT !.lastBrickIndex = gb[t].brickIndex,
                                             !.LOD = LOD,
                                             !.brickCoords = brickCoords,
                                             !.brickIndex = brickIndex,
                                             !.brickInfo = brickInfo,
                                             !.maxLevelRead =
                                               IF LOD > @ THEN LOD ELSE @])
  /\ UNCHANGED <<geo, hashBuffer, brickMeta, stored>>

\* The same iteration when info.LOD has left the level table: levelArray[LOD]
\* and brickMeta[brickIndex] are reads outside the buffers, whose result is
\* any index and any residency value.  The model follows the loop for
\* MaxOobLevels levels beyond the table: the last of them reads a value
\* other than BI_MISSING.
FallbackStepOutOfRange(t) ==
  /\ pc[t] = "fallback"
  /\ NextLOD(gb[t].LOD) \notin Levels
  /\ LET LOD == NextLOD(gb[t].LOD)
         values == IF LOD >= LEVEL_COUNT /\ LOD < LEVEL_COUNT + MaxOobLevels - 1
                   THEN ResidencyValues
                   ELSE ResidencyValues \ {BI_MISSING}
     IN \E brickIndex \in GarbageIndices, brickInfo \in values :
          AfterFallbackRead(t, [gb[t] EXCEPT !.lastBrickIndex = gb[t].brickIndex,
                                             !.LOD = LOD,
                                             !.brickCoords = <<0, 0, 0, LOD>>,
                                             !.brickIndex = brickIndex,
                                             !.brickInfo = brickInfo,
                                             !.maxLevelRead =
                                               IF LOD > @ THEN LOD ELSE @])
  /\ UNCHANGED <<geo, hashBuffer, brickMeta, stored>>

\* VolumeAtlas.h:138-167 after the second reportMissingBrick has returned.
Finish(t) ==
  /\ pc[t] = "finish"
  /\ gb' = [gb EXCEPT ![t] = FinishGetBrick(gb[t])]
  /\ pc' = [pc EXCEPT ![t] = "ret"]
  /\ UNCHANGED <<geo, hashBuffer, brickMeta, rmb, nCalls, stored>>

ThreadStep(t) ==
  \/ CasStep(t)
  \/ FallbackStep(t)
  \/ FallbackStepOutOfRange(t)
  \/ Finish(t)

\* A traversal pass: the host has filled the residency table.
Init ==
  /\ InitCommon
  /\ brickMeta \in [0..(NumBricks - 1) -> ResidencyValues]
  /\ geo = NoGeo

Next ==
  \E t \in Resolvers :
    \/ \E p \in EntryCoords, iLOD \in Levels, dontRequest \in BOOLEAN :
         GetBrickCall(t, p, iLOD, dontRequest)
    \/ CasSucceed(t)
    \/ CasFail(t)
    \/ CasFailSpurious(t)
    \/ FallbackStep(t)
    \/ FallbackStepOutOfRange(t)
    \/ Finish(t)

Spec == Init /\ [][Next]_vars

(***************************************************************************)
(* Two invocations of getBrick with the same arguments in one pass.  They  *)
(* share the hash buffer, so the second to call finds whatever the first   *)
(* has stored so far, and their steps interleave in every order.           *)
(***************************************************************************)
PairResolvers == {1, 2}

\* Thread 1 calls with any arguments, thread 2 with the arguments of
\* thread 1.
PairCall(t, p, iLOD, dontRequest) ==
  /\ t # 1 => /\ gb[1].active
              /\ gb[1].normEntryCoords = [a \in 1..3 |-> Clamp01(p[a])]
              /\ gb[1].iLOD = iLOD
              /\ gb[1].dontRequest = dontRequest
  /\ GetBrickCall(t, p, iLOD, dontRequest)

NextPair ==
  \E t \in PairResolvers :
    \/ \E p \in EntryCoords, iLOD \in Levels, dontRequest \in BOOLEAN :
         PairCall(t, p, iLOD, dontRequest)
    \/ CasSucceed(t)
    \/ CasFail(t)
    \/ CasFailSpurious(t)
    \/ FallbackStep(t)
    \/ FallbackStepOutOfRange(t)
    \/ Finish(t)

\* The tables of a pair: every brick Missing, ChildEmpty or Resident.
InitPair ==
  /\ InitCommon
  /\ brickMeta \in [0..(NumBricks - 1) -> {BI_MISSING, BI_CHILD_EMPTY, BI_FLAG_COUNT}]
  /\ geo = NoGeo

SpecPair == InitPair /\ [][NextPair]_vars

(***************************************************************************)
(* Brick bounds in single precision, VolumeAtlas.h:16-31.  A float is held *)
(* as an integer number of units of 2^-FracBits, and the format is         *)
(* binary32 scaled down: a significand of MantBits bits, round to nearest  *)
(* with ties to even, and a smallest quantum of one unit.  Every float     *)
(* operation rounds its exact result to the format.                        *)
(***************************************************************************)
Unit == Pow2(FracBits)

\* the exponent of the quantum of the positive rational num / den
RECURSIVE FloatExp(_, _, _)
FloatExp(num, den, e) ==
  IF num < den * Pow2(MantBits) * Pow2(e) THEN e ELSE FloatExp(num, den, e + 1)

Abs(n) ==
  IF n < 0 THEN -n ELSE n

\* the positive rational num / den (in units) rounded to the format
RoundMagnitude(num, den) ==
  LET q == Pow2(FloatExp(num, den, 0))
      down == num \div (den * q)
      rest == num - down * den * q
      up == \/ 2 * rest > den * q
            \/ (2 * rest = den * q /\ down % 2 = 1)
  IN (IF up THEN down + 1 ELSE down) * q

\* num / den (in units, den not zero) rounded to the format: the sign is
\* kept and the magnitude rounded
RoundFloat(num, den) ==
  LET magnitude == RoundMagnitude(Abs(num), Abs(den))
  IN IF (num < 0) = (den < 0) THEN magnitude ELSE -magnitude

IsFloat(n) ==
  RoundFloat(n, 1) = n

\* float * float
FloatMul(a, b) ==
  RoundFloat(a * b, Unit)

\* float / float
FloatDiv(a, b) ==
  RoundFloat(a * Unit, b)

\* float + float
FloatAdd(a, b) ==
  RoundFloat(a + b, 1)

\* float - float
FloatSub(a, b) ==
  RoundFloat(a - b, 1)

Min(a, b) ==
  IF a < b THEN a ELSE b

\* float3(uint3), the conversion of a brick coordinate
UintToFloat(n) ==
  RoundFloat(n * Unit, 1)

\* uint3(float3), truncation toward zero
FloatToUint(x) ==
  x \div Unit

\* VolumeAtlas.h:19 for a level whose fractionalBrickLayout is layout
computeBrickCoordsFloat(normEntryCoords, layout, LOD) ==
  LET cell(a) == FloatToUint(FloatMul(normEntryCoords[a], layout[a]))
  IN <<cell(1), cell(2), cell(3), LOD>>

\* VolumeAtlas.h:26-31: <<values[0], values[1]>>
getBrickCorners(brickCoords, layout) ==
  LET corner(k) == [a \in 1..3 |->
                     FloatDiv(UintToFloat(brickCoords[a] + k), layout[a])]
  IN <<corner(0), corner(1)>>

\* step(edge, x) of the shading language
step(edge, x) ==
  IF x < edge THEN 0 ELSE 1

\* VolumeAtlas.h:36, uint3(step(0.0,div)) for one axis: 1 selects values[1]
ExitSide(div) ==
  step(0, div)

\* VolumeAtlas.h:35-47: the parametric distance brickExit moves the point by
exitDistance(pointInBrick, dir, cubeBounds, corners) ==
  LET div == [a \in 1..3 |-> FloatDiv(Unit, dir[a])]
      side == [a \in 1..3 |-> ExitSide(div[a])]
      tBrick == [a \in 1..3 |->
                  FloatMul(FloatSub(corners[side[a] + 1][a], pointInBrick[a]), div[a])]
      tCube == [a \in 1..3 |->
                 FloatMul(FloatSub(cubeBounds[side[a] + 1][a], pointInBrick[a]), div[a])]
      tIntersect == [a \in 1..3 |-> Min(tBrick[a], tCube[a])]
  IN Min(Min(tIntersect[1], tIntersect[2]), tIntersect[3])

\* VolumeAtlas.h:33-48
brickExit(pointInBrick, dir, cubeBounds, corners) ==
  LET t == exitDistance(pointInBrick, dir, cubeBounds, corners)
  IN [a \in 1..3 |-> FloatAdd(pointInBrick[a], FloatMul(t, dir[a]))]

\* cubeBounds of the fragment uniforms: the unit cube
UnitCube == <<<<0, 0, 0>>, <<Unit, Unit, Unit>>>>

\* Directions with no zero component: x towards either side at full or half
\* speed, y towards 1 and z towards 0.
GeoDirections ==
  {<<dx, Unit, -Unit>> : dx \in {-Unit, -(Unit \div 2), Unit \div 2, Unit}}

\* the floats of [0, 1]
UnitFloats == {n \in 0..Unit : IsFloat(n)}

\* Positions on the edge y = 0, z = 1 of the cube, x any float of [0, 1].
GeoCoords == {<<x, 0, Unit>> : x \in UnitFloats}

\* Layouts of a level: x any multiple of a quarter up to MaxLayoutQuarters
\* quarters, y and z one half.
GeoLayouts ==
  {<<(n * Unit) \div 4, Unit \div 2, Unit \div 2>> : n \in 1..MaxLayoutQuarters}

\* VolumeAtlas.h:109 and 158-159 (107 having clamped the position): the
\* cell of a position, the corners of that cell and the exit of the ray
\* from it.
ComputeBounds ==
  /\ ~geo.done
  /\ LET brickCoords == computeBrickCoordsFloat(geo.normEntryCoords,
                                                geo.fractionalBrickLayout, geo.LOD)
         corners == getBrickCorners(brickCoords, geo.fractionalBrickLayout)
     IN geo' = [geo EXCEPT !.brickCoords = brickCoords,
                           !.corners = corners,
                           !.tExit = exitDistance(geo.normEntryCoords, geo.direction,
                                                  UnitCube, corners),
                           !.normExitCoords = brickExit(geo.normEntryCoords,
                                                        geo.direction, UnitCube,
                                                        corners),
                           !.done = TRUE]
  /\ UNCHANGED <<hashBuffer, brickMeta, pc, rmb, gb, nCalls, stored>>

InitGeo ==
  /\ InitCommon
  /\ brickMeta = [b \in 0..(NumBricks - 1) |-> BI_MISSING]
  /\ \E p \in GeoCoords, layout \in GeoLayouts, LOD \in Levels,
        direction \in GeoDirections :
       geo = [NoGeo EXCEPT !.normEntryCoords = p,
                           !.fractionalBrickLayout = layout,
                           !.LOD = LOD,
                           !.direction = direction]

NextGeo == ComputeBounds

SpecGeo == InitGeo /\ [][NextGeo]_vars

(***************************************************************************)
(* Pool coordinates of a resident brick, VolumeAtlas.h:50-57.              *)
(* POOL_CAPACITY is fixed when the shader is loaded (ShaderTypes.h:30);    *)
(* the model draws it from the capacities of up to MaxPoolDim bricks per   *)
(* axis.                                                                   *)
(***************************************************************************)
PoolCapacities ==
  {<<cx, cy, cz>> : cx \in 1..MaxPoolDim, cy \in 1..MaxPoolDim, cz \in 1..MaxPoolDim}

\* the residency values of resident bricks the model passes to infoToCoords:
\* those of the slots of the largest pool, and one slot beyond
ResidentValues ==
  BI_FLAG_COUNT..(BI_FLAG_COUNT + MaxPoolDim * MaxPoolDim * MaxPoolDim)

\* variant of the decomposition that wraps y at the capacity of the x axis
infoToCoords_WrongAxis(brickInfo, capacity) ==
  LET brickID == BrickID(brickInfo)
  IN <<brickID % capacity[1],
       (brickID \div capacity[1]) % capacity[1],
       brickID \div (capacity[1] * capacity[2])>>

\* VolumeAtlas.h:50-57, capacity being POOL_CAPACITY
infoToCoords(brickInfo, capacity) ==
  LET brickID == BrickID(brickInfo)
  IN <<brickID % capacity[1],
       (brickID \div capacity[1]) % capacity[2],
       brickID \div (capacity[1] * capacity[2])>>

\* VolumeAtlas.h:60, the call of infoToCoords in brickPoolCoords
InfoToCoords ==
  /\ ~geo.done
  /\ geo' = [geo EXCEPT !.vBrickCoords = infoToCoords(geo.brickInfo, geo.poolCapacity),
                        !.done = TRUE]
  /\ UNCHANGED <<hashBuffer, brickMeta, pc, rmb, gb, nCalls, stored>>

InitPool ==
  /\ InitCommon
  /\ brickMeta = [b \in 0..(NumBricks - 1) |-> BI_MISSING]
  /\ \E brickInfo \in ResidentValues, capacity \in PoolCapacities :
       geo = [NoGeo EXCEPT !.brickInfo = brickInfo, !.poolCapacity = capacity]

NextPool == InfoToCoords

SpecPool == InitPool /\ [][NextPool]_vars

(***************************************************************************)
(* Properties of the MissReportSet, checked under SpecInsert.              *)
(***************************************************************************)
AllReturned ==
  \A t \in Threads : pc[t] \in {"idle", "ret"}

Occurrences(b) ==
  Cardinality({s \in Slots : hashBuffer[s] = b})

InWindow(b, s) ==
  \E k \in 0..(MAX_PROBING_ATTEMPTS - 1) : s = (HashIndex(b) + k) % HASHTABLE_SIZE

WindowFullOfOthers(b) ==
  \A s \in Slots : InWindow(b, s) => hashBuffer[s] \notin {EMPTY_SLOT, b}

\* C1: once every invocation of reportMissingBrick has returned, each brick
\* index sits in at most one slot of the table, and in exactly one slot if
\* some invocation stored it.
C1_IdempotentInsert ==
  AllReturned =>
    \A b \in AllIndices :
      /\ Occurrences(b) <= 1
      /\ (b \in stored => Occurrences(b) = 1)

DistinctInserters ==
  /\ \A b \in AllIndices : nCalls[b] <= 1
  /\ Cardinality({b \in AllIndices : nCalls[b] = 1})
       <= HASHTABLE_SIZE - MAX_PROBING_ATTEMPTS

\* C2: when at most HASHTABLE_SIZE - MAX_PROBING_ATTEMPTS inserters have each
\* inserted a distinct brick index into the initially empty table and all
\* have returned, every one of those indices is in the table exactly once.
C2_NoLostInserts ==
  (AllReturned /\ DistinctInserters) =>
    \A b \in AllIndices : nCalls[b] = 1 => Occurrences(b) = 1

\* C3: every brick index in the table sits within MAX_PROBING_ATTEMPTS slots
\* of its hash slot, and every index a compare-and-swap has stored is still
\* found there, so a lookup of at most MAX_PROBING_ATTEMPTS probes finds it.
C3_ProbeFindable ==
  /\ \A s \in Slots :
       hashBuffer[s] # EMPTY_SLOT => InWindow(hashBuffer[s], s)
  /\ \A b \in stored :
       \E s \in Slots : InWindow(b, s) /\ hashBuffer[s] = b

\* an index stored away from its hash slot, after a collision
C3_Witness ==
  \E s \in Slots :
    /\ hashBuffer[s] # EMPTY_SLOT
    /\ s # HashIndex(hashBuffer[s])
    /\ hashBuffer[s] \in stored

\* C4: an invocation of reportMissingBrick makes at most
\* MAX_PROBING_ATTEMPTS compare-and-swap attempts, one per probe offset
\* (no slot is retried), and while it is in its loop its next attempt can
\* always be taken, whatever the other threads are doing.
C4_WaitFree ==
  \A t \in Threads :
    /\ rmb[t].attempts <= MAX_PROBING_ATTEMPTS
    /\ pc[t] = "cas" =>
         /\ rmb[t].attempts = rmb[t].i
         /\ rmb[t].i < MAX_PROBING_ATTEMPTS
         /\ ENABLED CasStep(t)

\* an invocation that has used all its attempts and returned while another
\* invocation is still in its loop
C4_Witness ==
  \E t, u \in Threads :
    /\ pc[t] = "ret"
    /\ rmb[t].attempts = MAX_PROBING_ATTEMPTS
    /\ pc[u] = "cas"
    /\ rmb[u].attempts > 0

\* C5: a step of an invocation whose MAX_PROBING_ATTEMPTS probe slots all
\* hold other indices changes no slot of the table, and the invocation
\* returns without having stored its index.
C5_SilentDrop ==
  [][\A t \in Threads :
       (pc[t] = "cas" /\ WindowFullOfOthers(rmb[t].brickIndex) /\ rmb'[t] # rmb[t])
         => /\ hashBuffer' = hashBuffer
            /\ rmb'[t].outcome \in {"running", "dropped"}
            /\ (pc'[t] # "cas" => rmb'[t].outcome = "dropped")]_vars

\* an invocation dropped its index on a full probe window
C5_Witness ==
  \E t \in Threads :
    /\ pc[t] = "ret"
    /\ rmb[t].outcome = "dropped"
    /\ WindowFullOfOthers(rmb[t].brickIndex)
    /\ Occurrences(rmb[t].brickIndex) = 0

\* the number of slots that hold a brick index
Occupied(table) ==
  Cardinality({s \in Slots : table[s] # EMPTY_SLOT})

\* C21: under every interleaving of the inserters, a step changes a slot of
\* the hash buffer only from the empty marker to the argument of an
\* invocation of reportMissingBrick that is in its loop; a slot that holds an
\* index is never overwritten or cleared (so every slot changes at most
\* once), and the number of occupied slots never decreases.
C21_SlotsWriteOnce ==
  [][/\ \A s \in Slots :
          hashBuffer'[s] # hashBuffer[s]
            => /\ hashBuffer[s] = EMPTY_SLOT
               /\ \E t \in Threads :
                    /\ pc[t] = "cas"
                    /\ hashBuffer'[s] = rmb[t].brickIndex
                    /\ nCalls[rmb[t].brickIndex] >= 1
     /\ Occupied(hashBuffer') >= Occupied(hashBuffer)]_vars

\* two invocations with different indices met on a slot: the first stored
\* there, the second found the slot taken and stored in a later one
C21_Witness ==
  \E t, u \in Threads :
    /\ rmb[t].outcome = "stored"
    /\ rmb[u].outcome = "stored"
    /\ rmb[t].brickIndex # rmb[u].brickIndex
    /\ rmb[u].i > 0
    /\ hashBuffer[ProbeSlot(rmb[u].hashIndex, 0)] = rmb[t].brickIndex
    /\ hashBuffer[ProbeSlot(rmb[u].hashIndex, rmb[u].i)] = rmb[u].brickIndex

(***************************************************************************)
(* Properties of getBrick, checked under Spec.                             *)
(***************************************************************************)
Returned(t) ==
  pc[t] = "ret" /\ gb[t].active

\* the residency value read for the requested brick
RequestedState(t) ==
  gb[t].requestedInfo

CoarsestState(t) ==
  StateAt(gb[t].normEntryCoords, LEVEL_COUNT - 1)

\* C6: whenever the requested brick is Missing and the coarsest level is not
\* Missing at the position, getBrick returns a strictly coarser level whose
\* brick is not Missing, whatever dontRequest is.
C6_ResolutionDegradation ==
  \A t \in Threads :
    (Returned(t) /\ RequestedState(t) = BI_MISSING /\ CoarsestState(t) # BI_MISSING)
      => /\ gb[t].LOD > gb[t].iLOD
         /\ gb[t].brickInfo # BI_MISSING

\* C7: when the coarsest level is not Missing at the position, getBrick never
\* reads the level table or the residency table at a level index >=
\* LEVEL_COUNT, every step it has left can be taken, and it returns a level
\* <= LEVEL_COUNT - 1, flagged as substitute if the requested brick was
\* Missing.
C7_ResolveTerminates ==
  \A t \in Threads :
    (gb[t].active /\ CoarsestState(t) # BI_MISSING)
      => /\ gb[t].maxLevelRead < LEVEL_COUNT
         /\ gb[t].LOD <= LEVEL_COUNT - 1
         /\ (pc[t] # "ret" => ENABLED ThreadStep(t))
         /\ (pc[t] = "ret" /\ RequestedState(t) = BI_MISSING => gb[t].substitute)

\* a fallback from the finest level that had to climb to the coarsest one
C7_Witness ==
  \E t \in Threads :
    /\ Returned(t)
    /\ ~gb[t].dontRequest
    /\ gb[t].iLOD = 0
    /\ RequestedState(t) = BI_MISSING
    /\ CoarsestState(t) # BI_MISSING
    /\ gb[t].LOD = LEVEL_COUNT - 1
    /\ gb[t].maxLevelRead = LEVEL_COUNT - 1
    /\ gb[t].substitute

\* C8: the level of an invocation of getBrick is never below the requested
\* level iLOD, and no step of the invocation decreases it.
C8_LodNeverFiner ==
  [][\A t \in Threads :
       gb'[t].active =>
         /\ gb'[t].LOD >= gb'[t].iLOD
         /\ (gb[t].active => gb'[t].LOD >= gb[t].LOD)]_vars

\* an invocation returned a level coarser than the requested one
C8_Witness ==
  \E t \in Threads : Returned(t) /\ gb[t].LOD > gb[t].iLOD

\* C9: when the requested brick is Resident (value >= BI_FLAG_COUNT), getBrick
\* returns the requested level, substitute and empty both false, a pool
\* transform computed from that brick's residency value, and has called
\* reportMissingBrick for no index, whatever dontRequest is.
C9_ResidentHit ==
  \A t \in Threads :
    (Returned(t) /\ RequestedState(t) >= BI_FLAG_COUNT)
      => /\ gb[t].LOD = gb[t].iLOD
         /\ ~gb[t].substitute
         /\ ~gb[t].empty
         /\ gb[t].poolInfo = RequestedState(t)
         /\ gb[t].reported = <<>>
         /\ rmb[t] = NoRmb

\* a resident hit at a level from which coarser levels exist, with requests
\* allowed
C9_Witness ==
  \E t \in Threads :
    /\ Returned(t)
    /\ RequestedState(t) >= BI_FLAG_COUNT
    /\ ~gb[t].dontRequest
    /\ gb[t].iLOD < LEVEL_COUNT - 1

\* C10: when the brick at the level L0 where the Missing fallback ended is
\* Empty or ChildEmpty, the level returned is the largest L >= L0 such that
\* the bricks at the levels L0+1..L are all exactly ChildEmpty: the level
\* after the returned one, if there is one, is not ChildEmpty.
C10_AscensionOnlyChildEmpty ==
  \A t \in Threads :
    (Returned(t) /\ gb[t].fallbackInfo \in {BI_EMPTY, BI_CHILD_EMPTY})
      => /\ gb[t].LOD >= gb[t].fallbackLOD
         /\ \A L \in (gb[t].fallbackLOD + 1)..gb[t].LOD :
              StateAt(gb[t].normEntryCoords, L) = BI_CHILD_EMPTY
         /\ (gb[t].LOD < LEVEL_COUNT - 1
               => StateAt(gb[t].normEntryCoords, gb[t].LOD + 1) # BI_CHILD_EMPTY)

\* states Empty, ChildEmpty, Resident from level 0: level 1 is returned
C10_Witness ==
  \E t \in Threads :
    /\ Returned(t)
    /\ gb[t].iLOD = 0
    /\ gb[t].fallbackLOD = 0
    /\ gb[t].fallbackInfo = BI_EMPTY
    /\ StateAt(gb[t].normEntryCoords, 1) = BI_CHILD_EMPTY
    /\ StateAt(gb[t].normEntryCoords, 2) >= BI_FLAG_COUNT
    /\ gb[t].LOD = 1

\* the flat index of the requested brick: the brick at level iLOD that
\* contains the clamped entry position
RequestedIndex(t) ==
  getBrickIndex(computeBrickCoords(gb[t].normEntryCoords, gb[t].iLOD))

\* C11: at every point of an invocation of getBrick, and so in its result,
\* the substitute flag equals (residency value read for the requested brick
\* = BI_MISSING), that value being the table's entry of the requested brick;
\* this holds for every residency table, both values of dontRequest and
\* whatever level is finally returned.
C11_SubstituteReflectsRequested ==
  \A t \in Threads :
    gb[t].active
      => /\ gb[t].substitute = (RequestedState(t) = BI_MISSING)
         /\ (RequestedIndex(t) \in DOMAIN brickMeta
               => RequestedState(t) = brickMeta[RequestedIndex(t)])

\* a Missing request for which a resident brick of a coarser level is
\* returned: the flag is that of the requested brick
C11_Witness ==
  \E t \in Threads :
    /\ Returned(t)
    /\ RequestedState(t) = BI_MISSING
    /\ gb[t].LOD > gb[t].iLOD
    /\ gb[t].brickInfo >= BI_FLAG_COUNT
    /\ gb[t].substitute

\* C12: no step of an invocation of getBrick with dontRequest set, and no
\* step of an invocation whose requested brick is not Missing, changes a
\* slot of the hash buffer; no step at all changes the residency table (the
\* level table is a constant of the model).
C12_MissReportSuppression ==
  [][/\ brickMeta' = brickMeta
     /\ \A t \in Threads :
          (gb'[t].active /\ (gb'[t].dontRequest \/ gb'[t].requestedInfo # BI_MISSING))
            => /\ hashBuffer' = hashBuffer
               /\ rmb'[t] = NoRmb
               /\ gb'[t].reported = <<>>]_vars

\* a Missing brick resolved with dontRequest set
C12_Witness ==
  \E t \in Threads :
    /\ Returned(t)
    /\ gb[t].dontRequest
    /\ RequestedState(t) = BI_MISSING
    /\ hashBuffer = [s \in Slots |-> EMPTY_SLOT]

\* C14: after getBrick has returned from a call with dontRequest false whose
\* requested brick is Missing, the hash buffer holds the flat index of the
\* requested brick, unless every slot of its probe window holds another
\* index; the table being empty when the pass starts, the index is present.
C14_MissReported ==
  \A t \in Threads :
    (Returned(t) /\ ~gb[t].dontRequest /\ RequestedState(t) = BI_MISSING)
      => \/ Occurrences(RequestedIndex(t)) >= 1
         \/ WindowFullOfOthers(RequestedIndex(t))

\* the levels of the table above the requested one
CoarserLevels(t) ==
  {L \in Levels : L > gb[t].iLOD}

\* C15: when getBrick has returned from a call with dontRequest false whose
\* requested brick is Missing, the level fallbackLOD at which the do-while
\* loop stopped is above the requested level, every level of the table
\* strictly between the two is Missing at the position, and if some coarser
\* level of the table is not Missing there, fallbackLOD is a level of the
\* table and is not Missing: it is the least such level.
C15_FallbackFinestAvailable ==
  \A t \in Threads :
    (Returned(t) /\ ~gb[t].dontRequest /\ RequestedState(t) = BI_MISSING)
      => /\ gb[t].fallbackLOD > gb[t].iLOD
         /\ \A L \in CoarserLevels(t) :
              L < gb[t].fallbackLOD => StateAt(gb[t].normEntryCoords, L) = BI_MISSING
         /\ (\E L \in CoarserLevels(t) : StateAt(gb[t].normEntryCoords, L) # BI_MISSING)
              => /\ gb[t].fallbackLOD \in Levels
                 /\ StateAt(gb[t].normEntryCoords, gb[t].fallbackLOD) # BI_MISSING
                 /\ gb[t].fallbackInfo = StateAt(gb[t].normEntryCoords, gb[t].fallbackLOD)

\* two coarser levels are available and the loop stopped at the finer one
C15_Witness ==
  \E t \in Threads :
    /\ Returned(t)
    /\ ~gb[t].dontRequest
    /\ gb[t].iLOD = 0
    /\ RequestedState(t) = BI_MISSING
    /\ StateAt(gb[t].normEntryCoords, 1) # BI_MISSING
    /\ StateAt(gb[t].normEntryCoords, 2) # BI_MISSING
    /\ gb[t].fallbackLOD = 1

\* C16: getBrick returns empty = TRUE only if the brick at which the Missing
\* fallback ended (the requested brick if there was no fallback) is Empty or
\* ChildEmpty; a Missing brick is never returned as empty, whatever
\* dontRequest is.
C16_EmptyMeansKnownEmpty ==
  \A t \in Threads :
    (Returned(t) /\ gb[t].empty)
      => gb[t].fallbackInfo \in {BI_EMPTY, BI_CHILD_EMPTY}

\* b is the flat index of a brick of the table that is Missing
IsMissingBrick(b) ==
  b \in DOMAIN brickMeta /\ brickMeta[b] = BI_MISSING

\* C17: every index an invocation of getBrick has passed to
\* reportMissingBrick is the flat index of a Missing brick; an invocation
\* that fell back from a Missing brick has reported twice, and the second
\* index is that of the brick at the level just below the level where the
\* fallback stopped; every slot of the hash buffer other than the empty
\* marker holds the index of a Missing brick.
C17_OnlyMissingReported ==
  /\ \A t \in Threads :
       /\ \A k \in DOMAIN gb[t].reported : IsMissingBrick(gb[t].reported[k])
       /\ (Returned(t) /\ ~gb[t].dontRequest /\ RequestedState(t) = BI_MISSING
             /\ REQUEST_LOWRES_LOD = 1 /\ (gb[t].fallbackLOD - 1) \in Levels)
            => /\ Len(gb[t].reported) = 2
               /\ gb[t].reported[2] =
                    getBrickIndex(computeBrickCoords(gb[t].normEntryCoords,
                                                     gb[t].fallbackLOD - 1))
  /\ \A s \in Slots :
       hashBuffer[s] # EMPTY_SLOT => IsMissingBrick(hashBuffer[s])

\* C18: the brickIndex field of the result of getBrick is the flat index of
\* the brick of the returned level that contains the clamped entry
\* position, also after a fallback and after an ascension.
C18_IndexMatchesReturnedLOD ==
  \A t \in Threads :
    (Returned(t) /\ gb[t].LOD \in Levels)
      => gb[t].infoBrickIndex =
           getBrickIndex(computeBrickCoords(gb[t].normEntryCoords, gb[t].LOD))

\* C19: for every residency table whose coarsest level is not Missing at the
\* position and both values of dontRequest, getBrick computes the pool
\* transform exactly when empty is false, and the residency value it then
\* passes to normCoordsToPoolCoords is at least BI_FLAG_COUNT, so the
\* subtraction in infoToCoords does not underflow.
C19_PoolTransformOnlyResident ==
  \A t \in Threads :
    (Returned(t) /\ CoarsestState(t) # BI_MISSING)
      => /\ (gb[t].poolInfo # NoPool) <=> ~gb[t].empty
         /\ gb[t].poolInfo # NoPool
              => /\ gb[t].poolInfo >= BI_FLAG_COUNT
                 /\ gb[t].poolInfo = gb[t].brickInfo
                 /\ BrickID(gb[t].poolInfo) >= 0

\* a pool transform computed for the resident brick a fallback ended at
C19_Witness ==
  \E t \in Threads :
    /\ Returned(t)
    /\ CoarsestState(t) # BI_MISSING
    /\ gb[t].LOD > gb[t].iLOD
    /\ ~gb[t].empty
    /\ gb[t].poolInfo >= BI_FLAG_COUNT

\* C20: the level table satisfying the offset accumulation (prevBricks of a
\* level is the brick count of all levels before it), for every clamped
\* position, components of exactly 1.0 included, and every level of the
\* table that getBrick addresses, each component of the brick coordinates
\* is below the level's brick count along that axis, and the flat index lies
\* in the level's own range [prevBricks, prevBricks + brick count) of the
\* residency table.
C20_IndexInsideLevel ==
  \A t \in Threads :
    (gb[t].active /\ gb[t].LOD \in Levels)
      => /\ gb[t].brickCoords[4] = gb[t].LOD
         /\ \A a \in 1..3 : gb[t].brickCoords[a] < BricksAlong(gb[t].LOD, a)
         /\ getBrickIndex(gb[t].brickCoords) >= PrevBricks(gb[t].LOD)
         /\ getBrickIndex(gb[t].brickCoords)
              < PrevBricks(gb[t].LOD) + BrickCount(gb[t].LOD)
         /\ getBrickIndex(gb[t].brickCoords) \in DOMAIN brickMeta

(***************************************************************************)
(* Properties of two invocations of getBrick, checked under SpecPair.      *)
(***************************************************************************)
\* the BrickInformation an invocation returns; the brick coordinates stand
\* for the corners, the exit position and the pool transform computed from
\* them
ResultOf(t) ==
  [LOD |-> gb[t].LOD,
   brickIndex |-> gb[t].infoBrickIndex,
   empty |-> gb[t].empty,
   substitute |-> gb[t].substitute,
   brickCoords |-> gb[t].brickCoords,
   poolInfo |-> gb[t].poolInfo]

C13_BoundsRoundTrip ==
  geo.done =>
    \A a \in 1..3 :
      /\ geo.corners[1][a] <= geo.normEntryCoords[a]
      /\ geo.normEntryCoords[a] <= geo.corners[2][a]

\* C24: for every entry position of the cube whose x lies strictly between
\* the faces of the cube (y and z lie on a face, with the direction pointing
\* into the cube), positions on a brick boundary included, and every
\* direction without a zero component, the distance
\* brickExit moves the point by is above zero, the exit position differs
\* from the entry position, and it lies within the closed bounds of the
\* brick and of the cube.
C24_RayAdvances ==
  (geo.done /\ 0 < geo.normEntryCoords[1] /\ geo.normEntryCoords[1] < Unit) =>
    /\ geo.tExit > 0
    /\ geo.normExitCoords # geo.normEntryCoords
    /\ \A a \in 1..3 :
         /\ geo.corners[1][a] <= geo.normExitCoords[a]
         /\ geo.normExitCoords[a] <= geo.corners[2][a]
         /\ UnitCube[1][a] <= geo.normExitCoords[a]
         /\ geo.normExitCoords[a] <= UnitCube[2][a]

(***************************************************************************)
(* Properties of the pool coordinates, checked under SpecPool.             *)
(***************************************************************************)
\* the number of slots of a pool
PoolSlots(capacity) ==
  capacity[1] * capacity[2] * capacity[3]

\* C23: for every resident value whose slot brickInfo - BI_FLAG_COUNT is
\* below the number of slots of the pool, infoToCoords returns coordinates
\* below the capacity on every axis that recompose to the slot
\* (x + y*Cx + z*Cx*Cy), and no other slot of the pool gets the same
\* coordinates.
C23_PoolSlotBijection ==
  (geo.done /\ BrickID(geo.brickInfo) < PoolSlots(geo.poolCapacity))
    => /\ \A a \in 1..3 : geo.vBrickCoords[a] < geo.poolCapacity[a]
       /\ geo.vBrickCoords[1]
            + geo.vBrickCoords[2] * geo.poolCapacity[1]
            + geo.vBrickCoords[3] * geo.poolCapacity[1] * geo.poolCapacity[2]
          = BrickID(geo.brickInfo)
       /\ \A other \in ResidentValues :
            (other # geo.brickInfo /\ BrickID(other) < PoolSlots(geo.poolCapacity))
              => infoToCoords(other, geo.poolCapacity) # geo.vBrickCoords

\* the last slot of a pool with different capacities on the three axes
C23_Witness ==
  /\ geo.done
  /\ geo.poolCapacity = <<2, 3, 2>>
  /\ BrickID(geo.brickInfo) = PoolSlots(geo.poolCapacity) - 1
  /\ geo.vBrickCoords = <<1, 2, 1>>

====
